---- MODULE Spec2Model ----
(***************************************************************************)
(* Model of the moltbook-agent edge functions:                             *)
(*   - the scheduled run      (src/unnamed/part_000, lines 65-254)         *)
(*   - postToMoltbook         (src/unnamed/part_000, lines 324-390)        *)
(*   - the regenerate handler (src/unnamed/part_000, lines 437-605)        *)
(*   - the decision handler   (src/supabase/functions/post-to-moltbook/    *)
(*                             index.ts, lines 14-182)                     *)
(* Every request is served by one handler.  A handler is cut into atomic   *)
(* steps at its awaits: every store write and every log insert is a step   *)
(* of its own, an outbound call (text generation, publish) is a step taken *)
(* together with the statement that follows it only where that statement   *)
(* is the insert of the generated text.  A timestamp the handler computes  *)
(* (new Date()) is taken when the statement is built, at the end of the    *)
(* handler's previous step; created_at is the insert's own time.  The      *)
(* store (post_queue, seen_posts, activity_log) is assumed to execute      *)
(* every statement successfully.                                           *)
(***************************************************************************)
EXTENDS Integers, Sequences, FiniteSets, TLC

\* ---------------------------------------------------------------- bounds
MaxRequests == 2      \* requests served in one behaviour
MaxTime == 2          \* last minute of the clock (SpecClock)
FeedSize == 6         \* posts of the long feed (SpecCap)
MaxRelevant == 1      \* posts one run judges relevant
CapSubmolts == 1      \* target submolts of the configuration of SpecCap

\* ------------------------------------------------------ program constants
PerRunLimit == 5      \* newPosts.slice(0, 5)

\* null in an id, timestamp or number column
NULL == 0
\* null in a text column or request field (null, undefined and "" are all
\* falsy where the code tests them)
NoText == ""

\* the handlers that can be serving a request at the same time
Handlers == {1, 2}
Submolts == {1, 2}

\* column defaults of post_queue (table schema)
DefaultStatus == "pending"
DefaultGenerationAttempt == 0

VARIABLES
    config,          \* agent_config (singleton row)
    feed,            \* the platform: the posts of every submolt
    post_queue,      \* sequence of drafts; a draft's id is its index
    seen_posts,      \* set of moltbook_post_id
    activity_log,    \* sequence of log entries
    moltbook,        \* the platform: successful publish calls, in order
    proc,            \* handlers: kind, position and locals
    requests,        \* requests started so far
    response,        \* the response returned last, and the request it answers
    now,             \* clock, in minutes
    relevanceCalls,  \* history: the posts checkRelevance was invoked for
    fresh            \* history: ids of the drafts the scheduled run inserted

vars == <<config, feed, post_queue, seen_posts, activity_log, moltbook, proc,
          requests, response, now, relevanceCalls, fresh>>

\* ---------------------------------------------------------------- helpers
Min(a, b) == IF a <= b THEN a ELSE b

RECURSIVE FetchPosts(_, _)
\* lines 101-114: posts.push(...data.posts) for every target submolt whose
\* fetch answered ok
FetchPosts(submolts, okSubmolts) ==
    IF submolts = <<>> THEN <<>>
    ELSE (IF Head(submolts) \in okSubmolts THEN feed[Head(submolts)] ELSE <<>>)
         \o FetchPosts(Tail(submolts), okSubmolts)

\* posts.filter((p) => !seenPostIds.has(p.id))
FilterNew(posts, seen) == SelectSeq(posts, LAMBDA p : p.id \notin seen)

IdleProc ==
    [kind |-> "idle", pc |-> "idle",
     draft_id |-> NULL, action |-> "none",
     edited_content |-> NoText, edited_title |-> NoText,
     moltbookId |-> NULL, rootId |-> NULL, attemptNumber |-> 0,
     newPosts |-> <<>>, postsToReply |-> <<>>, idx |-> 0,
     inserted |-> NULL, phase |-> "none", publishFailed |-> FALSE,
     content |-> NoText, stamp |-> NULL,
     ok |-> FALSE, dataId |-> NULL, newTitle |-> NoText]

\* a request is served by the first handler that is idle (which handler
\* serves a request makes no difference to the program)
Free(h) ==
    /\ requests < MaxRequests
    /\ proc[h].pc = "idle"
    /\ \A g \in Handlers : g < h => proc[g].pc # "idle"

NoResponse ==
    [kind |-> "none", result |-> "none", draft_id |-> NULL, action |-> "none",
     publishFailed |-> FALSE]

\* the response of handler `me`, with what the request was; publishFailed:
\* a publish call of the request did not answer ok
Response(me, result) ==
    [kind |-> me.kind, result |-> result, draft_id |-> me.draft_id,
     action |-> me.action, publishFailed |-> me.publishFailed]

\* a step of handler h starts a request when h was idle
Started(h) == requests' = requests + (IF proc[h].pc = "idle" THEN 1 ELSE 0)

\* handler h returns `result`: its locals are gone and it is idle again
Return(h, me, result) ==
    /\ proc' = [proc EXCEPT ![h] = IdleProc]
    /\ response' = Response(me, result)
    /\ Started(h)

\* handler h goes on as `me`; stamp: the time of this step, which is the
\* value of new Date() in the statement the handler issues next
Continue(h, me) ==
    /\ proc' = [proc EXCEPT ![h] = [me EXCEPT !.stamp = now]]
    /\ UNCHANGED response
    /\ Started(h)

\* insert into post_queue: the row the insert statement and the column
\* defaults produce
NewDraft(type, title, content, submolt, replyTo, replyToComment, context, attempt, root) ==
    [type |-> type, title |-> title, content |-> content, submolt |-> submolt,
     reply_to_post_id |-> replyTo, reply_to_comment_id |-> replyToComment,
     context |-> context,
     status |-> DefaultStatus, final_content |-> NoText,
     generation_attempt |-> attempt, root_draft_id |-> root,
     created_at |-> now, decided_at |-> NULL, posted_at |-> NULL,
     moltbook_post_id |-> NULL, moltbook_comment_id |-> NULL]

\* lines 148-163: the reply draft of a source post
ReplyDraft(post) ==
    NewDraft("reply", NoText, "generated", post.submolt, post.id, NULL,
             [original_post |-> post.id, trigger |-> "none"],
             DefaultGenerationAttempt, NULL)

\* lines 208-217: an original post draft
OriginalPostDraft(submolt) ==
    NewDraft("post", "title", "generated", submolt, NULL, NULL,
             [original_post |-> NULL, trigger |-> "scheduled"],
             DefaultGenerationAttempt, NULL)

LogEntry(action, id, details) ==
    [action |-> action, post_queue_id |-> id, details |-> details]

\* ------------------------------------------------------------------- Init
\* the platform: one post in submolt 1, none in submolt 2
SmallFeed ==
    [s \in Submolts |-> IF s = 1 THEN <<[id |-> 1, submolt |-> 1]>> ELSE <<>>]

FeedIds(f) == UNION {{f[s][i].id : i \in 1..Len(f[s])} : s \in Submolts}

\* the store before the first request
ColdStore ==
    /\ post_queue = <<>>
    /\ seen_posts = {}
    /\ activity_log = <<>>
    /\ relevanceCalls = [p \in FeedIds(feed) |-> 0]
    /\ fresh = {}

\* the store after one scheduled run that found post 1 relevant, created its
\* reply draft and an original post draft and published neither
WarmStore ==
    /\ post_queue = <<[ReplyDraft(feed[1][1]) EXCEPT !.root_draft_id = 1],
                      [OriginalPostDraft(1) EXCEPT !.root_draft_id = 2]>>
    /\ seen_posts = {1}
    /\ activity_log = <<LogEntry("generated", 1, 1)>>
    /\ relevanceCalls = [p \in FeedIds(feed) |-> IF p = 1 THEN 1 ELSE 0]
    /\ fresh = {1, 2}

InitWith(f) ==
    /\ config \in [auto_post : BOOLEAN, api_key : BOOLEAN,
                   post_frequency_minutes : {1}, target_submolts : {<<1, 2>>}]
    /\ feed = f
    /\ now = 1
    /\ moltbook = <<>>
    /\ proc = [h \in Handlers |-> IdleProc]
    /\ response = NoResponse
    /\ requests = 0
    /\ (ColdStore \/ WarmStore)

Init == InitWith(SmallFeed)

\* -------------------------------------------------------- scheduled run
\* AfterRelevance for a loop over newPosts instead of newPosts.slice(0, 5)
AfterRelevance_NoLimit(newPosts, postsToReply, idx) ==
    IF idx <= Len(newPosts) THEN "relevance"
    ELSE IF postsToReply # <<>> THEN "reply"
    ELSE "cooldown"

\* position of the run after the relevance loop has handled idx - 1 posts
AfterRelevance(newPosts, postsToReply, idx) ==
    IF idx <= Min(Len(newPosts), PerRunLimit) THEN "relevance"
    ELSE IF postsToReply # <<>> THEN "reply"
    ELSE "cooldown"

\* position of the run after the reply loop has handled idx - 1 posts
AfterReply(postsToReply, idx) ==
    IF idx <= Len(postsToReply) THEN "reply" ELSE "cooldown"

\* what the feed request of a submolt can do: answer 2xx with the posts,
\* answer non-2xx, or throw (fetch rejects, or response.json() throws)
FetchOutcomes == {"ok", "http_error", "throw"}

\* lines 71-122: read the config (without api_key the run throws, lines
\* 95-98), fetch the feed of every target submolt (fetches: the outcome of
\* each request), read seen_posts, filter.  A request that throws is not
\* caught in the loop: the run ends in the catch of lines 244-253 with the
\* error as its response
RunStart(h, fetches) ==
    /\ Free(h)
    /\ LET submolts == config.target_submolts
           okSubmolts == {s \in Submolts : fetches[s] = "ok"}
           posts == FetchPosts(submolts, okSubmolts)
           newPosts == FilterNew(posts, seen_posts)
           me == [IdleProc EXCEPT !.kind = "run"]
       IN IF ~config.api_key
          THEN Return(h, me, "Moltbook API key not configured")
          ELSE IF \E k \in 1..Len(submolts) : fetches[submolts[k]] = "throw"
          THEN Return(h, me, "fetch failed")
          ELSE Continue(h, [me EXCEPT !.newPosts = newPosts,
                                      !.idx = 1,
                                      !.pc = AfterRelevance(newPosts, <<>>, 1)])
    /\ UNCHANGED <<config, feed, post_queue, seen_posts, activity_log, moltbook,
                   now, relevanceCalls, fresh>>

\* lines 127-132, one iteration: checkRelevance (answer: "yes", "no", or
\* "throw" when the text-generation call fails) and postsToReply.push; a
\* run is given at most MaxRelevant "yes" answers
RunEvaluate(h, answer) ==
    /\ proc[h].kind = "run" /\ proc[h].pc = "relevance"
    /\ answer = "yes" => Len(proc[h].postsToReply) < MaxRelevant
    /\ LET me == proc[h]
           post == me.newPosts[me.idx]
           toReply == IF answer = "yes" THEN Append(me.postsToReply, post)
                      ELSE me.postsToReply
       IN /\ relevanceCalls' = [relevanceCalls EXCEPT ![post.id] = @ + 1]
          /\ IF answer = "throw"
             THEN Return(h, me, "OpenAI API error")
             ELSE Continue(h, [me EXCEPT !.postsToReply = toReply,
                                         !.pc = "mark_seen"])
    /\ UNCHANGED <<config, feed, post_queue, seen_posts, activity_log, moltbook,
                   now, fresh>>

\* lines 134-138: the seen_posts upsert of the post just evaluated, then the
\* next iteration or the end of the loop
RunMarkSeen(h) ==
    /\ proc[h].kind = "run" /\ proc[h].pc = "mark_seen"
    /\ LET me == proc[h]
           post == me.newPosts[me.idx]
           next == AfterRelevance(me.newPosts, me.postsToReply, me.idx + 1)
       IN /\ seen_posts' = seen_posts \cup {post.id}
          /\ Continue(h, [me EXCEPT
                !.idx = IF next = "relevance" THEN me.idx + 1 ELSE 1,
                !.pc = next])
    /\ UNCHANGED <<config, feed, post_queue, activity_log, moltbook, now,
                   relevanceCalls, fresh>>

\* lines 143-165: generateReply (genOk: the text-generation call answered),
\* then the insert of the reply draft
RunGenerateReply(h, genOk) ==
    /\ proc[h].kind = "run" /\ proc[h].pc = "reply"
    /\ LET me == proc[h]
           id == Len(post_queue) + 1
       IN IF ~genOk
          THEN /\ Return(h, me, "OpenAI API error")
               /\ UNCHANGED <<post_queue, fresh>>
          ELSE /\ post_queue' = Append(post_queue, ReplyDraft(me.postsToReply[me.idx]))
               /\ fresh' = fresh \cup {id}
               /\ Continue(h, [me EXCEPT !.inserted = id, !.phase = "reply",
                                         !.pc = "reply_root"])
    /\ UNCHANGED <<config, feed, seen_posts, activity_log, moltbook, now,
                   relevanceCalls>>

\* lines 167-174: root_draft_id := own id
RunReplySetRoot(h) ==
    /\ proc[h].kind = "run" /\ proc[h].pc = "reply_root"
    /\ LET me == proc[h]
       IN /\ post_queue' = [post_queue EXCEPT ![me.inserted].root_draft_id = me.inserted]
          /\ Continue(h, [me EXCEPT !.pc = "reply_log"])
    /\ UNCHANGED <<config, feed, seen_posts, activity_log, moltbook, now,
                   relevanceCalls, fresh>>

\* lines 176-186: the "generated" log entry, then the auto-post branch
RunReplyLog(h) ==
    /\ proc[h].kind = "run" /\ proc[h].pc = "reply_log"
    /\ LET me == proc[h]
       IN /\ activity_log' = Append(activity_log,
                LogEntry("generated", me.inserted, me.postsToReply[me.idx].id))
          /\ Continue(h, IF config.auto_post
                         THEN [me EXCEPT !.pc = "auto_select"]
                         ELSE [me EXCEPT !.idx = me.idx + 1,
                                         !.pc = AfterReply(me.postsToReply, me.idx + 1)])
    /\ UNCHANGED <<config, feed, post_queue, seen_posts, moltbook, now,
                   relevanceCalls, fresh>>

\* ------------------------------------------------------- postToMoltbook
\* postToMoltbook returns to the run: the next reply (line 188), or the
\* success summary after the original post (lines 235-243)
AfterAutoPost(h, me) ==
    IF me.phase = "reply"
    THEN Continue(h, [me EXCEPT !.idx = me.idx + 1,
                                !.pc = AfterReply(me.postsToReply, me.idx + 1)])
    ELSE Return(h, me, "success")

\* what the publish request carries: final_content || content
PublishedContent(draft) ==
    IF draft.final_content # NoText THEN draft.final_content ELSE draft.content

\* the platform's record of a successful publish call: the request of a
\* post carries submolt, title and content, the request of a reply (a
\* comment on reply_to_post_id) carries the content only
Publication(id, draft, title, content) ==
    [draft |-> id, type |-> draft.type,
     title |-> IF draft.type = "post" THEN title ELSE NoText,
     content |-> content]

\* lines 329-335: select the draft (it exists: no handler deletes rows); the
\* request body is built from this row
PostToMoltbookSelect(h) ==
    /\ proc[h].kind = "run" /\ proc[h].pc = "auto_select"
    /\ LET me == proc[h]
           draft == post_queue[me.inserted]
       IN Continue(h, [me EXCEPT !.content = PublishedContent(draft),
                                 !.pc = "auto_publish"])
    /\ UNCHANGED <<config, feed, post_queue, seen_posts, activity_log, moltbook,
                   now, relevanceCalls, fresh>>

\* lines 337-352, 355-368: await fetch of the publish API with the row
\* selected.  outcome: "ok" (the platform takes the publication and answers
\* 2xx), "http_error" (it answers non-2xx) or "throw" (the fetch rejects).
\* ok, dataId: response.ok and the id in the body of the answer
PostToMoltbookPublish(h, outcome) ==
    /\ proc[h].kind = "run" /\ proc[h].pc = "auto_publish"
    /\ LET me == proc[h]
           draft == post_queue[me.inserted]
           failed == [me EXCEPT !.publishFailed = TRUE]
       IN CASE outcome = "ok" ->
                 /\ moltbook' = Append(moltbook,
                        Publication(me.inserted, draft, draft.title, me.content))
                 /\ Continue(h, [me EXCEPT !.ok = TRUE,
                                           !.dataId = Len(moltbook) + 1,
                                           !.pc = "auto_json"])
            [] outcome = "http_error" ->
                 /\ Continue(h, [failed EXCEPT !.ok = FALSE, !.pc = "auto_json"])
                 /\ UNCHANGED moltbook
            [] outcome = "throw" ->
                 /\ Return(h, failed, "publish call threw")
                 /\ UNCHANGED moltbook
    /\ UNCHANGED <<config, feed, post_queue, seen_posts, activity_log, now,
                   relevanceCalls, fresh>>

\* PostToMoltbookJson without the response.ok test of line 373: the update
\* is written whatever the status of the answer, with the id its body names
\* (the body of an error names a publication that is not this draft's)
PostToMoltbookJson_NoOkTest(h, parses) ==
    /\ proc[h].kind = "run" /\ proc[h].pc = "auto_json"
    /\ LET me == proc[h]
       IN IF ~parses
          THEN Return(h, [me EXCEPT !.publishFailed = TRUE], "publish call threw")
          ELSE Continue(h, [me EXCEPT
                  !.moltbookId = IF me.ok THEN me.dataId ELSE Len(moltbook) + 1,
                  !.pc = "auto_update"])
    /\ UNCHANGED <<config, feed, post_queue, seen_posts, activity_log, moltbook,
                   now, relevanceCalls, fresh>>

\* lines 353-354, 369-373: await response.json() (parses: the body is JSON;
\* if not, the call throws and the run ends in its catch), moltbookId =
\* data.id, and the response.ok test: postToMoltbook returns when the answer
\* was not 2xx
PostToMoltbookJson(h, parses) ==
    /\ proc[h].kind = "run" /\ proc[h].pc = "auto_json"
    /\ LET me == proc[h]
       IN IF ~parses
          THEN Return(h, [me EXCEPT !.publishFailed = TRUE], "publish call threw")
          ELSE IF me.ok
          THEN Continue(h, [me EXCEPT !.moltbookId = me.dataId,
                                      !.pc = "auto_update"])
          ELSE AfterAutoPost(h, me)
    /\ UNCHANGED <<config, feed, post_queue, seen_posts, activity_log, moltbook,
                   now, relevanceCalls, fresh>>

\* lines 374-382: status := posted, posted_at, remote id
PostToMoltbookUpdate(h) ==
    /\ proc[h].kind = "run" /\ proc[h].pc = "auto_update"
    /\ LET me == proc[h]
           draft == post_queue[me.inserted]
       IN /\ post_queue' = [post_queue EXCEPT ![me.inserted] =
                IF draft.type = "post"
                THEN [draft EXCEPT !.status = "posted", !.posted_at = me.stamp,
                                   !.moltbook_post_id = me.moltbookId]
                ELSE [draft EXCEPT !.status = "posted", !.posted_at = me.stamp,
                                   !.moltbook_comment_id = me.moltbookId]]
          /\ Continue(h, [me EXCEPT !.pc = "auto_log"])
    /\ UNCHANGED <<config, feed, seen_posts, activity_log, moltbook, now,
                   relevanceCalls, fresh>>

\* lines 384-389: the "posted" log entry; postToMoltbook returns
PostToMoltbookLog(h) ==
    /\ proc[h].kind = "run" /\ proc[h].pc = "auto_log"
    /\ LET me == proc[h]
       IN /\ activity_log' = Append(activity_log,
                LogEntry("posted", me.inserted, me.moltbookId))
          /\ AfterAutoPost(h, me)
    /\ UNCHANGED <<config, feed, post_queue, seen_posts, moltbook, now,
                   relevanceCalls, fresh>>

\* ------------------------------------------- scheduled run: original post
\* lines 191-198: created_at of the newest type=post draft (NULL: none)
RECURSIVE LastPostTime(_, _)
LastPostTime(queue, i) ==
    IF i = 0 THEN NULL
    ELSE LET rest == LastPostTime(queue, i - 1)
         IN IF queue[i].type = "post" /\ queue[i].created_at > rest
            THEN queue[i].created_at ELSE rest

\* lines 199-203: minutesSinceLastPost >= config.post_frequency_minutes,
\* with Infinity when there is no post draft
PostDue(queue, cfg, t) ==
    LET last == LastPostTime(queue, Len(queue))
    IN last = NULL \/ t - last >= cfg.post_frequency_minutes

\* lines 191-203 (and 235-243): select the newest post draft and test the
\* cooldown; not due: the success summary
RunSelectRecent(h) ==
    /\ proc[h].kind = "run" /\ proc[h].pc = "cooldown"
    /\ IF PostDue(post_queue, config, now)
       THEN Continue(h, [proc[h] EXCEPT !.pc = "post_generate"])
       ELSE Return(h, proc[h], "success")
    /\ UNCHANGED <<config, feed, post_queue, seen_posts, activity_log, moltbook,
                   now, relevanceCalls, fresh>>

\* lines 303-305: the submolts Math.random picks the submolt of an original
\* post from
TargetSubmolts == {config.target_submolts[k] : k \in 1..Len(config.target_submolts)}

\* lines 204-219: generateOriginalPost (genOk: the call answered and its
\* JSON parsed; submolt: the random target submolt), then the insert
RunGenerateOriginalPost(h, genOk, submolt) ==
    /\ proc[h].kind = "run" /\ proc[h].pc = "post_generate"
    /\ LET me == proc[h]
           id == Len(post_queue) + 1
       IN IF ~genOk
          THEN /\ Return(h, me, "OpenAI API error")
               /\ UNCHANGED <<post_queue, fresh>>
          ELSE /\ post_queue' = Append(post_queue, OriginalPostDraft(submolt))
               /\ fresh' = fresh \cup {id}
               /\ Continue(h, [me EXCEPT !.inserted = id, !.phase = "post",
                                         !.pc = "post_root"])
    /\ UNCHANGED <<config, feed, seen_posts, activity_log, moltbook, now,
                   relevanceCalls>>

\* RunPostSetRoot without the update of lines 222-225
RunPostSetRoot_NoUpdate(h) ==
    /\ proc[h].kind = "run" /\ proc[h].pc = "post_root"
    /\ LET me == proc[h]
       IN IF config.auto_post
          THEN Continue(h, [me EXCEPT !.pc = "auto_select"])
          ELSE Return(h, me, "success")
    /\ UNCHANGED <<config, feed, post_queue, seen_posts, activity_log, moltbook,
                   now, relevanceCalls, fresh>>

\* lines 221-243: root_draft_id := own id, then the auto-post branch or the
\* success summary
RunPostSetRoot(h) ==
    /\ proc[h].kind = "run" /\ proc[h].pc = "post_root"
    /\ LET me == proc[h]
       IN /\ post_queue' = [post_queue EXCEPT ![me.inserted].root_draft_id = me.inserted]
          /\ IF config.auto_post
             THEN Continue(h, [me EXCEPT !.pc = "auto_select"])
             ELSE Return(h, me, "success")
    /\ UNCHANGED <<config, feed, seen_posts, activity_log, moltbook, now,
                   relevanceCalls, fresh>>

\* ----------------------------------------------------- decision handler
Actions == {"approve", "edit", "reject"}
EditedContents == {NoText, "edited"}
EditedTitles == {NoText, "edited title"}

\* the draft ids a request can name: the rows of the queue and one id that
\* is no row
RequestIds == 1..(Len(post_queue) + 1)

\* DecisionStart without the status test of index.ts lines 48-50
DecisionStart_NoStatusTest(h, id, action, edited_content, edited_title) ==
    /\ Free(h)
    /\ LET me == [IdleProc EXCEPT !.kind = "decision", !.draft_id = id,
                                  !.action = action]
       IN IF id > Len(post_queue)
          THEN Return(h, me, "Draft not found")
          ELSE IF action = "reject"
          THEN Continue(h, [me EXCEPT !.pc = "reject"])
          ELSE Continue(h, [me EXCEPT !.pc = "config",
                                      !.edited_content = edited_content,
                                      !.edited_title = edited_title])
    /\ UNCHANGED <<config, feed, post_queue, seen_posts, activity_log, moltbook,
                   now, relevanceCalls, fresh>>

\* index.ts lines 21-53: parse the request, await the select of the draft,
\* refuse a missing draft and a draft whose status is not pending
DecisionStart(h, id, action, edited_content, edited_title) ==
    /\ Free(h)
    /\ LET me == [IdleProc EXCEPT !.kind = "decision", !.draft_id = id,
                                  !.action = action]
       IN IF id > Len(post_queue)
          THEN Return(h, me, "Draft not found")
          ELSE IF post_queue[id].status # "pending"
          THEN Return(h, me, "Draft already processed")
          ELSE IF action = "reject"
          THEN Continue(h, [me EXCEPT !.pc = "reject"])
          ELSE Continue(h, [me EXCEPT !.pc = "config",
                                      !.edited_content = edited_content,
                                      !.edited_title = edited_title])
    /\ UNCHANGED <<config, feed, post_queue, seen_posts, activity_log, moltbook,
                   now, relevanceCalls, fresh>>

\* index.ts lines 73-81: await the select of the api_key of the config and
\* throw when there is none
DecisionConfig(h) ==
    /\ proc[h].kind = "decision" /\ proc[h].pc = "config"
    /\ IF ~config.api_key
       THEN Return(h, proc[h], "Moltbook API key not configured")
       ELSE Continue(h, [proc[h] EXCEPT !.pc = "publish"])
    /\ UNCHANGED <<config, feed, post_queue, seen_posts, activity_log, moltbook,
                   now, relevanceCalls, fresh>>

\* DecisionReject with posted_at written as in the approve update
DecisionReject_SetsPostedAt(h) ==
    /\ proc[h].kind = "decision" /\ proc[h].pc = "reject"
    /\ post_queue' = [post_queue EXCEPT ![proc[h].draft_id] =
            [@ EXCEPT !.status = "rejected", !.decided_at = proc[h].stamp,
                      !.posted_at = proc[h].stamp]]
    /\ Continue(h, [proc[h] EXCEPT !.pc = "reject_log"])
    /\ UNCHANGED <<config, feed, seen_posts, activity_log, moltbook, now,
                   relevanceCalls, fresh>>

\* index.ts lines 53-60: status := rejected, decided_at
DecisionReject(h) ==
    /\ proc[h].kind = "decision" /\ proc[h].pc = "reject"
    /\ post_queue' = [post_queue EXCEPT ![proc[h].draft_id] =
            [@ EXCEPT !.status = "rejected", !.decided_at = proc[h].stamp]]
    /\ Continue(h, [proc[h] EXCEPT !.pc = "reject_log"])
    /\ UNCHANGED <<config, feed, seen_posts, activity_log, moltbook, now,
                   relevanceCalls, fresh>>

\* index.ts lines 62-70: the "rejected" log entry and the response
DecisionRejectLog(h) ==
    /\ proc[h].kind = "decision" /\ proc[h].pc = "reject_log"
    /\ activity_log' = Append(activity_log,
            LogEntry("rejected", proc[h].draft_id, NULL))
    /\ Return(h, proc[h], "success")
    /\ UNCHANGED <<config, feed, post_queue, seen_posts, moltbook, now,
                   relevanceCalls, fresh>>

\* index.ts lines 84-86
FinalContent(me, draft) ==
    IF me.edited_content # NoText THEN me.edited_content ELSE draft.content

FinalTitle(me, draft) ==
    IF me.edited_title # NoText THEN me.edited_title ELSE draft.title

WasEdited(me) == me.edited_content # NoText \/ me.edited_title # NoText

\* DecisionPublish without the response.ok tests of index.ts lines 106-109
\* and 129-132: the handler goes on after a failed publish call
DecisionPublish_NoOkTest(h, ok) ==
    /\ proc[h].kind = "decision" /\ proc[h].pc = "publish"
    /\ LET me == proc[h]
           draft == post_queue[me.draft_id]
       IN IF ok
          THEN /\ moltbook' = Append(moltbook,
                      Publication(me.draft_id, draft, FinalTitle(me, draft),
                                  FinalContent(me, draft)))
               /\ Continue(h, [me EXCEPT !.ok = TRUE,
                                         !.dataId = Len(moltbook) + 1,
                                         !.pc = "publish_json"])
          ELSE /\ Continue(h, [me EXCEPT !.publishFailed = TRUE,
                                         !.pc = "publish_json"])
               /\ UNCHANGED moltbook
    /\ UNCHANGED <<config, feed, post_queue, seen_posts, activity_log, now,
                   relevanceCalls, fresh>>

\* index.ts lines 84-109, 113-132: await fetch of the publish API (ok: the
\* platform takes the publication and answers 2xx); a failure throws and the
\* handler answers with the error
DecisionPublish(h, ok) ==
    /\ proc[h].kind = "decision" /\ proc[h].pc = "publish"
    /\ LET me == proc[h]
           draft == post_queue[me.draft_id]
       IN IF ok
          THEN /\ moltbook' = Append(moltbook,
                      Publication(me.draft_id, draft, FinalTitle(me, draft),
                                  FinalContent(me, draft)))
               /\ Continue(h, [me EXCEPT !.ok = TRUE,
                                         !.dataId = Len(moltbook) + 1,
                                         !.pc = "publish_json"])
          ELSE /\ Return(h, [me EXCEPT !.publishFailed = TRUE], "Moltbook API error")
               /\ UNCHANGED moltbook
    /\ UNCHANGED <<config, feed, post_queue, seen_posts, activity_log, now,
                   relevanceCalls, fresh>>

\* index.ts lines 111-112, 134-135: await response.json() (parses: the body
\* is JSON; if not, the call throws and the handler answers with the error)
\* and moltbookId = data.id
DecisionJson(h, parses) ==
    /\ proc[h].kind = "decision" /\ proc[h].pc = "publish_json"
    /\ LET me == proc[h]
       IN IF parses
          THEN Continue(h, [me EXCEPT !.moltbookId = me.dataId, !.pc = "update"])
          ELSE Return(h, [me EXCEPT !.publishFailed = TRUE], "Moltbook API error")
    /\ UNCHANGED <<config, feed, post_queue, seen_posts, activity_log, moltbook,
                   now, relevanceCalls, fresh>>

\* index.ts lines 139-148: status, final_content, remote id, decided_at,
\* posted_at
DecisionUpdate(h) ==
    /\ proc[h].kind = "decision" /\ proc[h].pc = "update"
    /\ LET me == proc[h]
           draft == post_queue[me.draft_id]
           updated == [draft EXCEPT
                         !.status = IF WasEdited(me) THEN "edited" ELSE "approved",
                         !.final_content = IF WasEdited(me) THEN FinalContent(me, draft)
                                           ELSE NoText,
                         !.decided_at = me.stamp,
                         !.posted_at = me.stamp]
       IN /\ post_queue' = [post_queue EXCEPT ![me.draft_id] =
                IF draft.type = "post"
                THEN [updated EXCEPT !.moltbook_post_id = me.moltbookId]
                ELSE [updated EXCEPT !.moltbook_comment_id = me.moltbookId]]
          /\ Continue(h, [me EXCEPT !.pc = "update_log"])
    /\ UNCHANGED <<config, feed, seen_posts, activity_log, moltbook, now,
                   relevanceCalls, fresh>>

\* index.ts lines 151-171: the "edited"/"approved" log entry and the response
DecisionUpdateLog(h) ==
    /\ proc[h].kind = "decision" /\ proc[h].pc = "update_log"
    /\ LET me == proc[h]
       IN /\ activity_log' = Append(activity_log,
                LogEntry(IF WasEdited(me) THEN "edited" ELSE "approved",
                         me.draft_id, me.moltbookId))
          /\ Return(h, me, "success")
    /\ UNCHANGED <<config, feed, post_queue, seen_posts, moltbook, now,
                   relevanceCalls, fresh>>

\* --------------------------------------------------- regenerate handler
\* RegenerateStart with rootId = draft_id, without original.root_draft_id
\* (part_000 line 481)
RegenerateStart_OwnRoot(h, id) ==
    /\ Free(h)
    /\ LET me == [IdleProc EXCEPT !.kind = "regenerate", !.draft_id = id]
       IN IF id > Len(post_queue)
          THEN Return(h, me, "Draft not found")
          ELSE Continue(h, [me EXCEPT
                  !.rootId = id,
                  !.attemptNumber = post_queue[id].generation_attempt + 1,
                  !.pc = "generate"])
    /\ UNCHANGED <<config, feed, post_queue, seen_posts, activity_log, moltbook,
                   now, relevanceCalls, fresh>>

\* part_000 lines 444-488: select the original draft, refuse a missing one,
\* compute rootId and attemptNumber from the row selected (the select of the
\* previous attempts only feeds the prompt)
RegenerateStart(h, id) ==
    /\ Free(h)
    /\ LET me == [IdleProc EXCEPT !.kind = "regenerate", !.draft_id = id]
       IN IF id > Len(post_queue)
          THEN Return(h, me, "Draft not found")
          ELSE Continue(h, [me EXCEPT
                  !.rootId = IF post_queue[id].root_draft_id # NULL
                             THEN post_queue[id].root_draft_id ELSE id,
                  !.attemptNumber = post_queue[id].generation_attempt + 1,
                  !.pc = "generate"])
    /\ UNCHANGED <<config, feed, post_queue, seen_posts, activity_log, moltbook,
                   now, relevanceCalls, fresh>>

\* what the text generation of a regenerate answers: "error" (the call
\* fails), "titled" (a JSON object with title and content) or "untitled"
\* (plain text, or a JSON object without title)
Generations == {"error", "titled", "untitled"}

\* part_000 lines 496-548: newTitle, set only for a post and only from an
\* answer that parses as JSON and has a title
NewTitle(original, answer) ==
    IF original.type = "post" /\ answer = "titled" THEN "new title" ELSE NoText

\* RegenerateGenerate with the supersede update of lines 550-554 issued
\* before the text generation is awaited: a failed generation leaves the
\* source superseded
RegenerateGenerate_SupersedeFirst(h, answer) ==
    /\ proc[h].kind = "regenerate" /\ proc[h].pc = "generate"
    /\ post_queue' = [post_queue EXCEPT ![proc[h].draft_id] =
            [@ EXCEPT !.status = "superseded", !.decided_at = proc[h].stamp]]
    /\ IF answer = "error"
       THEN Return(h, proc[h], "OpenAI API error")
       ELSE Continue(h, [proc[h] EXCEPT
               !.newTitle = NewTitle(post_queue[proc[h].draft_id], answer),
               !.pc = "insert"])
    /\ UNCHANGED <<config, feed, seen_posts, activity_log, moltbook, now,
                   relevanceCalls, fresh>>

\* part_000 lines 495-548: await openaiChat; a failure throws and the
\* handler answers with the error
RegenerateGenerate(h, answer) ==
    /\ proc[h].kind = "regenerate" /\ proc[h].pc = "generate"
    /\ IF answer = "error"
       THEN Return(h, proc[h], "OpenAI API error")
       ELSE Continue(h, [proc[h] EXCEPT
               !.newTitle = NewTitle(post_queue[proc[h].draft_id], answer),
               !.pc = "supersede"])
    /\ UNCHANGED <<config, feed, post_queue, seen_posts, activity_log, moltbook,
                   now, relevanceCalls, fresh>>

\* part_000 lines 550-554: status := superseded, decided_at
RegenerateSupersede(h) ==
    /\ proc[h].kind = "regenerate" /\ proc[h].pc = "supersede"
    /\ post_queue' = [post_queue EXCEPT ![proc[h].draft_id] =
            [@ EXCEPT !.status = "superseded", !.decided_at = proc[h].stamp]]
    /\ Continue(h, [proc[h] EXCEPT !.pc = "insert"])
    /\ UNCHANGED <<config, feed, seen_posts, activity_log, moltbook, now,
                   relevanceCalls, fresh>>

\* RegenerateInsert without `context: original.context` (part_000 line 565):
\* the new draft is stored with an empty context
RegenerateInsert_NoContext(h) ==
    /\ proc[h].kind = "regenerate" /\ proc[h].pc = "insert"
    /\ LET me == proc[h]
           original == post_queue[me.draft_id]
           id == Len(post_queue) + 1
       IN /\ post_queue' = Append(post_queue,
                NewDraft(original.type,
                         IF me.newTitle # NoText THEN me.newTitle ELSE original.title,
                         "regenerated", original.submolt,
                         original.reply_to_post_id, original.reply_to_comment_id,
                         [original_post |-> NULL, trigger |-> "none"],
                         me.attemptNumber, me.rootId))
          /\ Continue(h, [me EXCEPT !.inserted = id, !.pc = "regenerate_log"])
    /\ UNCHANGED <<config, feed, seen_posts, activity_log, moltbook, now,
                   relevanceCalls, fresh>>

\* part_000 lines 556-575: insert the new draft, title: newTitle ||
\* original.title.  The values carried over are those of the row selected
\* at the start; no handler ever updates them, so they are read here.
RegenerateInsert(h) ==
    /\ proc[h].kind = "regenerate" /\ proc[h].pc = "insert"
    /\ LET me == proc[h]
           original == post_queue[me.draft_id]
           id == Len(post_queue) + 1
       IN /\ post_queue' = Append(post_queue,
                NewDraft(original.type,
                         IF me.newTitle # NoText THEN me.newTitle ELSE original.title,
                         "regenerated", original.submolt,
                         original.reply_to_post_id, original.reply_to_comment_id,
                         original.context, me.attemptNumber, me.rootId))
          /\ Continue(h, [me EXCEPT !.inserted = id, !.pc = "regenerate_log"])
    /\ UNCHANGED <<config, feed, seen_posts, activity_log, moltbook, now,
                   relevanceCalls, fresh>>

\* part_000 lines 577-594: the "regenerated" log entry and the response
RegenerateLog(h) ==
    /\ proc[h].kind = "regenerate" /\ proc[h].pc = "regenerate_log"
    /\ LET me == proc[h]
       IN /\ activity_log' = Append(activity_log,
                LogEntry("regenerated", me.inserted, me.draft_id))
          /\ Return(h, me, "success")
    /\ UNCHANGED <<config, feed, post_queue, seen_posts, moltbook, now,
                   relevanceCalls, fresh>>

\* ------------------------------------------------------------------ clock
Tick ==
    /\ now < MaxTime
    /\ now' = now + 1
    /\ UNCHANGED <<config, feed, post_queue, seen_posts, activity_log, moltbook,
                   proc, requests, response, relevanceCalls, fresh>>

\* ------------------------------------------------------------------- Next
Next ==
    \/ \E h \in Handlers, fetches \in [Submolts -> FetchOutcomes] : RunStart(h, fetches)
    \/ \E h \in Handlers, answer \in {"yes", "no", "throw"} : RunEvaluate(h, answer)
    \/ \E h \in Handlers, genOk \in BOOLEAN : RunGenerateReply(h, genOk)
    \/ \E h \in Handlers : RunMarkSeen(h)
    \/ \E h \in Handlers : RunReplySetRoot(h)
    \/ \E h \in Handlers : RunReplyLog(h)
    \/ \E h \in Handlers : PostToMoltbookSelect(h)
    \/ \E h \in Handlers, outcome \in {"ok", "http_error", "throw"} :
          PostToMoltbookPublish(h, outcome)
    \/ \E h \in Handlers, parses \in BOOLEAN : PostToMoltbookJson(h, parses)
    \/ \E h \in Handlers : PostToMoltbookUpdate(h)
    \/ \E h \in Handlers : PostToMoltbookLog(h)
    \/ \E h \in Handlers : RunSelectRecent(h)
    \/ \E h \in Handlers, genOk \in BOOLEAN, s \in TargetSubmolts :
          RunGenerateOriginalPost(h, genOk, s)
    \/ \E h \in Handlers : RunPostSetRoot(h)
    \/ \E h \in Handlers, id \in RequestIds, a \in Actions,
          ec \in EditedContents, et \in EditedTitles :
          DecisionStart(h, id, a, ec, et)
    \/ \E h \in Handlers : DecisionConfig(h)
    \/ \E h \in Handlers : DecisionReject(h)
    \/ \E h \in Handlers : DecisionRejectLog(h)
    \/ \E h \in Handlers, ok \in BOOLEAN : DecisionPublish(h, ok)
    \/ \E h \in Handlers, parses \in BOOLEAN : DecisionJson(h, parses)
    \/ \E h \in Handlers : DecisionUpdate(h)
    \/ \E h \in Handlers : DecisionUpdateLog(h)
    \/ \E h \in Handlers, id \in RequestIds : RegenerateStart(h, id)
    \/ \E h \in Handlers, answer \in Generations : RegenerateGenerate(h, answer)
    \/ \E h \in Handlers : RegenerateSupersede(h)
    \/ \E h \in Handlers : RegenerateInsert(h)
    \/ \E h \in Handlers : RegenerateLog(h)

\* all requests are served within one minute
Spec == Init /\ [][Next]_vars

\* the same with time passing between the steps
NextClock == Next \/ Tick

SpecClock == Init /\ [][NextClock]_vars

\* ------------------------------------------ scheduled runs on a long feed
\* the platform with more new posts than one run evaluates: FeedSize posts
\* in submolt 1, none in submolt 2
BigFeed ==
    [s \in Submolts |->
        IF s = 1 THEN [i \in 1..FeedSize |-> [id |-> i, submolt |-> 1]] ELSE <<>>]

\* the store is empty before the first run; the agent targets the first
\* CapSubmolts submolts
InitCap ==
    /\ config \in [auto_post : BOOLEAN, api_key : BOOLEAN,
                   post_frequency_minutes : {1},
                   target_submolts : {[k \in 1..CapSubmolts |-> k]}]
    /\ feed = BigFeed
    /\ now = 1
    /\ moltbook = <<>>
    /\ proc = [h \in Handlers |-> IdleProc]
    /\ response = NoResponse
    /\ requests = 0
    /\ ColdStore

\* scheduled runs only
NextCap ==
    \/ \E h \in Handlers, fetches \in [Submolts -> FetchOutcomes] : RunStart(h, fetches)
    \/ \E h \in Handlers, answer \in {"yes", "no", "throw"} : RunEvaluate(h, answer)
    \/ \E h \in Handlers, genOk \in BOOLEAN : RunGenerateReply(h, genOk)
    \/ \E h \in Handlers : RunMarkSeen(h)
    \/ \E h \in Handlers : RunReplySetRoot(h)
    \/ \E h \in Handlers : RunReplyLog(h)
    \/ \E h \in Handlers : PostToMoltbookSelect(h)
    \/ \E h \in Handlers, outcome \in {"ok", "http_error", "throw"} :
          PostToMoltbookPublish(h, outcome)
    \/ \E h \in Handlers, parses \in BOOLEAN : PostToMoltbookJson(h, parses)
    \/ \E h \in Handlers : PostToMoltbookUpdate(h)
    \/ \E h \in Handlers : PostToMoltbookLog(h)
    \/ \E h \in Handlers : RunSelectRecent(h)
    \/ \E h \in Handlers, genOk \in BOOLEAN, s \in TargetSubmolts :
          RunGenerateOriginalPost(h, genOk, s)
    \/ \E h \in Handlers : RunPostSetRoot(h)

SpecCap == InitCap /\ [][NextCap]_vars

\* ------------------------------------------- requests on a decided store
\* the store a minute after a scheduled run whose feed requests answered
\* non-2xx, which created an original post draft, and an approve decision on
\* that draft, whose publish call succeeded
DecidedStore ==
    LET post == [OriginalPostDraft(1) EXCEPT !.root_draft_id = 1,
                                             !.created_at = now - 1]
    IN /\ post_queue = <<[post EXCEPT !.status = "approved", !.decided_at = now - 1,
                                        !.posted_at = now - 1, !.moltbook_post_id = 1]>>
       /\ moltbook = <<Publication(1, post, post.title, post.content)>>
       /\ seen_posts = {}
       /\ activity_log = <<LogEntry("approved", 1, 1)>>
       /\ relevanceCalls = [p \in FeedIds(feed) |-> 0]
       /\ fresh = {1}

InitDecided ==
    /\ config \in [auto_post : BOOLEAN, api_key : {TRUE},
                   post_frequency_minutes : {1}, target_submolts : {<<1, 2>>}]
    /\ feed = SmallFeed
    /\ now = 2
    /\ proc = [h \in Handlers |-> IdleProc]
    /\ response = NoResponse
    /\ requests = 0
    /\ DecidedStore

SpecDecided == InitDecided /\ [][Next]_vars

\* ================================================================ claims
Rows == 1..Len(post_queue)

\* the lineage of draft i: its root_draft_id, its own id while that is unset
Lineage(i) ==
    IF post_queue[i].root_draft_id # NULL THEN post_queue[i].root_draft_id ELSE i

\* successful publish calls made for draft i
Publishes(i) == Cardinality({k \in 1..Len(moltbook) : moltbook[k].draft = i})

\* C1: every lineage has at most one draft with status pending (as the claim
\* states it; the code does not keep it)
C1_OnePendingPerLineage ==
    \A i \in Rows, j \in Rows :
        (i # j /\ Lineage(i) = Lineage(j) /\ post_queue[i].status = "pending")
            => post_queue[j].status # "pending"

\* a status change the state machine of the claim allows
Forward(s, t) ==
    \/ s = t
    \/ s = "pending" /\ t \in {"approved", "edited", "rejected", "superseded", "posted"}
    \/ s \in {"approved", "edited"} /\ t = "posted"

\* C2: a draft's status only moves forward: rejected, superseded and posted
\* are never left, and approved or edited are never overwritten with
\* superseded (as the claim states it; the code does not keep it)
C2_StatusMovesForward ==
    [][\A i \in Rows : Forward(post_queue[i].status, post_queue'[i].status)]_vars

\* handler h starts a decision request that it accepts
DecisionAccepted(h) ==
    proc[h].pc = "idle" /\ proc'[h].kind = "decision"

\* a request is started and answered in the same step
AnsweredAtOnce == requests' = requests + 1 /\ proc' = proc

StoreUnchanged ==
    /\ post_queue' = post_queue
    /\ activity_log' = activity_log
    /\ moltbook' = moltbook

\* C3: a decision is accepted only for a draft whose stored status is
\* pending; for a draft in another status the request is answered "Draft
\* already processed" and changes neither the queue, the log nor the
\* platform; no status ever returns to pending, so after a successful
\* decision on a draft every later decision on it is refused
C3_DecisionOnlyFromPending ==
    [][/\ \A h \in Handlers :
             DecisionAccepted(h) =>
                 /\ proc'[h].draft_id \in Rows
                 /\ post_queue[proc'[h].draft_id].status = "pending"
       /\ (AnsweredAtOnce /\ response'.kind = "decision") =>
             /\ StoreUnchanged
             /\ response'.result # "success"
             /\ (response'.draft_id \in Rows =>
                    /\ post_queue[response'.draft_id].status # "pending"
                    /\ response'.result = "Draft already processed")
       /\ \A h \in Handlers :
             (proc[h].kind = "decision" /\ proc[h].pc = "config"
                /\ proc'[h] # proc[h]) => StoreUnchanged
       /\ \A i \in Rows :
             post_queue[i].status # "pending" => post_queue'[i].status # "pending"
       /\ (response'.kind = "decision" /\ response'.result = "success") =>
             post_queue'[response'.draft_id].status # "pending"
      ]_vars

\* C3 witness: a decision on a draft that an earlier decision approved,
\* edited or rejected has been refused
C3_Witness ==
    /\ response.kind = "decision"
    /\ response.result = "Draft already processed"
    /\ \E k \in 1..Len(activity_log) :
          /\ activity_log[k].post_queue_id = response.draft_id
          /\ activity_log[k].action \in {"approved", "edited", "rejected"}

\* the fields a decision or a publish sets are unset
Undecided(draft) ==
    /\ draft.final_content = NoText
    /\ draft.decided_at = NULL
    /\ draft.posted_at = NULL
    /\ draft.moltbook_post_id = NULL
    /\ draft.moltbook_comment_id = NULL

\* handler h makes the publish call of a decision and the call fails: the
\* platform does not answer 2xx, or its answer cannot be read
DecisionPublishFails(h) ==
    /\ proc[h].kind = "decision"
    /\ proc'[h] # proc[h]
    /\ \/ proc[h].pc = "publish" /\ moltbook' = moltbook
       \/ proc[h].pc = "publish_json" /\ proc'[h].pc # "update"

\* C4: when the publish call of an approve or edit decision fails, the
\* handler answers with an error and writes nothing: the queue and the log
\* stay as they are, so the draft, pending when the request was accepted,
\* is still pending with final_content, decided_at, posted_at and the remote
\* ids unset, unless another request has changed its status meanwhile
C4_FailedPublishLeavesPending ==
    [][\A h \in Handlers :
          DecisionPublishFails(h) =>
             /\ proc'[h] = IdleProc
             /\ response'.kind = "decision"
             /\ response'.draft_id = proc[h].draft_id
             /\ response'.result = "Moltbook API error"
             /\ post_queue' = post_queue
             /\ activity_log' = activity_log
             /\ post_queue[proc[h].draft_id].status = "pending" =>
                    /\ post_queue'[proc[h].draft_id].status = "pending"
                    /\ Undecided(post_queue'[proc[h].draft_id])
      ]_vars

\* C4 witness: an approve/edit decision was answered with the publish error
\* and its draft is pending
C4_Witness ==
    /\ response.kind = "decision"
    /\ response.action \in {"approve", "edit"}
    /\ response.publishFailed
    /\ response.result = "Moltbook API error"
    /\ post_queue[response.draft_id].status = "pending"

\* C5: the publish call succeeds at most once for a draft, whatever the
\* interleaving of decisions and auto-post (as the claim states it; the code
\* does not keep it)
C5_PublishedAtMostOnce == \A i \in Rows : Publishes(i) <= 1

\* C6: checkRelevance is invoked at most once for a source post (as the
\* claim states it; the code does not keep it)
C6_RelevanceAtMostOnce == \A p \in DOMAIN relevanceCalls : relevanceCalls[p] <= 1

\* the run of handler h has evaluated post p and its seen_posts upsert for
\* p is the next statement
MarkingSeen(h, p) ==
    /\ proc[h].kind = "run" /\ proc[h].pc = "mark_seen"
    /\ proc[h].newPosts[proc[h].idx].id = p

\* C7: a post for which checkRelevance was invoked is in seen_posts once the
\* iteration is over (it is in seen_posts, or the run that evaluated it is
\* about to write it), also when checkRelevance failed (as the claim states
\* it; the code does not keep it)
C7_EvaluatedIsSeen ==
    \A p \in DOMAIN relevanceCalls :
        relevanceCalls[p] > 0 =>
            (p \in seen_posts \/ \E h \in Handlers : MarkingSeen(h, p))

\* C8: a run whose auto-post publish call failed answers with an error (as
\* the claim states it; the code does not keep it)
C8_AutoPostFailureSurfaced ==
    (response.kind = "run" /\ response.publishFailed) => response.result # "success"

\* the run of handler h has inserted a draft and postToMoltbook has not yet
\* written it as posted
MidAutoPost(h) ==
    /\ config.auto_post
    /\ proc[h].kind = "run"
    /\ proc[h].pc \in {"reply_root", "reply_log", "post_root", "auto_select",
                      "auto_publish", "auto_json", "auto_update"}

\* handler g has read draft i as pending and accepted a decision on it
ReadAsPending(g, i) ==
    /\ proc[g].kind = "decision"
    /\ proc[g].pc \in {"config", "publish", "publish_json", "reject", "reject_log",
                      "update", "update_log"}
    /\ proc[g].draft_id = i

\* C9: with auto-post enabled no draft of a scheduled run is stored as
\* pending where another handler can observe it before its posted
\* transition commits: no decision handler reads such a draft as pending
\* (as the claim states it; the code does not keep it)
C9_NoPendingObserved ==
    \A h \in Handlers, g \in Handlers :
        MidAutoPost(h) => ~ReadAsPending(g, proc[h].inserted)

\* the run of handler h has inserted draft i and not yet completed its
\* create step (the root_draft_id update)
Creating(h, i) ==
    /\ proc[h].kind = "run"
    /\ proc[h].pc \in {"reply_root", "post_root"}
    /\ proc[h].inserted = i

\* C10: every draft the scheduled run inserted has generation_attempt 0 and,
\* once its create step is complete, root_draft_id equal to its own id
C10_FreshDraftIsRoot ==
    \A i \in fresh :
        /\ i \in Rows
        /\ post_queue[i].generation_attempt = 0
        /\ \/ post_queue[i].root_draft_id = i
           \/ /\ post_queue[i].root_draft_id = NULL
              /\ \E h \in Handlers : Creating(h, i)

\* C10 witness: a run has completed the create step of an original post and
\* of a reply draft, and a regeneration of the reply draft is in the queue
C10_Witness ==
    /\ \E h \in Handlers :
          /\ proc[h].kind = "run" /\ proc[h].pc = "auto_publish"
          /\ post_queue[proc[h].inserted].type = "post"
          /\ post_queue[proc[h].inserted].root_draft_id = proc[h].inserted
    /\ \E i \in fresh, j \in Rows \ fresh :
          /\ post_queue[i].type = "reply"
          /\ post_queue[j].root_draft_id = i

\* the "regenerated" log entries: entry k records new draft post_queue_id as
\* the regeneration of draft details
Regenerations == {k \in 1..Len(activity_log) : activity_log[k].action = "regenerated"}

\* C11 as stated: a regenerated draft has the attempt number of its source
\* plus one and the root_draft_id of its source (violated while the source's
\* own root_draft_id is not yet written)
C11_SameRootAsSource ==
    \A k \in Regenerations :
        LET new == post_queue[activity_log[k].post_queue_id]
            source == post_queue[activity_log[k].details]
        IN /\ new.generation_attempt = source.generation_attempt + 1
           /\ new.root_draft_id = source.root_draft_id

\* C11 (amended): a regenerated draft has the attempt number of its source
\* plus one and the root_draft_id of its source, the source's own id while
\* the source's root_draft_id is unset; so along a chain the attempt number
\* grows by one per step and the root is the same
C11_AttemptAndRootCarried ==
    \A k \in Regenerations :
        LET new == post_queue[activity_log[k].post_queue_id]
            source == post_queue[activity_log[k].details]
        IN /\ new.generation_attempt = source.generation_attempt + 1
           /\ new.root_draft_id = Lineage(activity_log[k].details)
           /\ new.root_draft_id # NULL

\* C11 witness: a chain of two regenerations: a fresh draft, its
\* regeneration (attempt 1) and the regeneration of that (attempt 2)
C11_Witness ==
    \E k \in Regenerations, l \in Regenerations :
        /\ activity_log[l].details = activity_log[k].post_queue_id
        /\ activity_log[k].details \in fresh
        /\ post_queue[activity_log[l].post_queue_id].generation_attempt = 2
        /\ post_queue[activity_log[l].post_queue_id].root_draft_id = activity_log[k].details

\* handler h, serving an approve or edit decision, takes its step at pc
DecisionCommits(h, pc) ==
    /\ proc[h].kind = "decision" /\ proc[h].pc = pc
    /\ proc'[h] # proc[h]

\* the status and log action that correspond to the requested action
StatusOf(action) == IF action = "edit" THEN "edited" ELSE "approved"

\* C12: a successful edit decision leaves the draft edited with
\* final_content the supplied content, a successful approve decision leaves
\* it approved with final_content unset, and the log entry names the same
\* action, whichever of edited_content and edited_title the request carries
\* (as the claim states it; the code does not keep it)
C12_StatusFollowsAction ==
    [][\A h \in Handlers :
          /\ DecisionCommits(h, "update") =>
                LET me == proc[h]
                    after == post_queue'[me.draft_id]
                IN /\ after.status = StatusOf(me.action)
                   /\ after.final_content =
                         (IF me.action = "edit" THEN me.edited_content ELSE NoText)
          /\ DecisionCommits(h, "update_log") =>
                /\ activity_log'[Len(activity_log')].action = StatusOf(proc[h].action)
                /\ activity_log'[Len(activity_log')].post_queue_id = proc[h].draft_id
      ]_vars

\* handler h, serving a reject decision, takes its step at pc
RejectCommits(h, pc) ==
    /\ proc[h].kind = "decision" /\ proc[h].pc = pc
    /\ proc'[h] # proc[h]

\* C13: an accepted reject decision goes to its update without a publish
\* call; the update sets status rejected and decided_at on its draft and
\* nothing else in the queue; the handler then appends exactly one
\* "rejected" log entry for the draft and answers; it makes no publish call,
\* and a draft that was pending is left without final_content, posted_at
\* and remote ids
C13_RejectFrame ==
    [][\A h \in Handlers :
          /\ (DecisionAccepted(h) /\ proc'[h].action = "reject") =>
                /\ proc'[h].pc = "reject"
                /\ moltbook' = moltbook
          /\ RejectCommits(h, "reject") =>
                LET d == proc[h].draft_id
                IN /\ post_queue' = [post_queue EXCEPT ![d] =
                          [@ EXCEPT !.status = "rejected", !.decided_at = proc[h].stamp]]
                   /\ proc[h].stamp # NULL
                   /\ proc'[h].pc = "reject_log"
                   /\ moltbook' = moltbook
                   /\ activity_log' = activity_log
                   /\ post_queue[d].status = "pending" =>
                          /\ post_queue'[d].final_content = NoText
                          /\ post_queue'[d].posted_at = NULL
                          /\ post_queue'[d].moltbook_post_id = NULL
                          /\ post_queue'[d].moltbook_comment_id = NULL
          /\ RejectCommits(h, "reject_log") =>
                /\ post_queue' = post_queue
                /\ moltbook' = moltbook
                /\ activity_log' = Append(activity_log,
                       LogEntry("rejected", proc[h].draft_id, NULL))
                /\ response'.kind = "decision" /\ response'.result = "success"
      ]_vars

\* C13 witness: a reject decision on a draft has succeeded: the draft is
\* rejected, never published, and the last log entry is its "rejected" entry
C13_Witness ==
    /\ response.kind = "decision" /\ response.action = "reject"
    /\ response.result = "success"
    /\ post_queue[response.draft_id].status = "rejected"
    /\ post_queue[response.draft_id].decided_at # NULL
    /\ Publishes(response.draft_id) = 0
    /\ activity_log[Len(activity_log)] = LogEntry("rejected", response.draft_id, NULL)

\* the run of handler h completes the create step of the draft it inserted
CreateCompletes(h) ==
    /\ proc[h].kind = "run"
    /\ proc[h].pc \in {"reply_log", "post_root"}
    /\ proc'[h] # proc[h]

\* the log is only appended to
LogAppendOnly ==
    /\ Len(activity_log') >= Len(activity_log)
    /\ SubSeq(activity_log', 1, Len(activity_log)) = activity_log

\* C14: the log is append-only and every draft creation of the scheduled
\* run, reply or original post, appends a "generated" entry that references
\* the draft (as the claim states it; the code does not keep it)
C14_EveryCreationLogged ==
    [][/\ LogAppendOnly
       /\ \A h \in Handlers :
             CreateCompletes(h) =>
                \E k \in 1..Len(activity_log') :
                    /\ activity_log'[k].action = "generated"
                    /\ activity_log'[k].post_queue_id = proc[h].inserted
      ]_vars

\* C15: a feed fetch that fails for one submolt does not make the run answer
\* with an error: the run goes on with the posts of the other submolts (as
\* the claim states it; the code keeps it for a non-2xx answer only, not for
\* a request that throws)
C15_FetchFailureTolerated ==
    ~(response.kind = "run" /\ response.result = "fetch failed")

\* the run of handler h takes its step at pc of the relevance loop
Evaluates(h, pc) ==
    /\ proc[h].kind = "run" /\ proc[h].pc = pc
    /\ proc'[h] # proc[h]

\* C16: a run evaluates only the first PerRunLimit of the posts that were
\* new when it started: whenever checkRelevance is invoked for a post or a
\* post is marked seen, the post is among the first five new posts of the
\* run that takes the step, and nothing is ever removed from seen_posts; so
\* a run marks none of its other new posts, and a later run whose feed
\* request is answered finds every post that is still unseen new
C16_AtMostFivePerRun ==
    [][/\ seen_posts \subseteq seen_posts'
       /\ \A h \in Handlers :
             proc'[h].pc \in {"relevance", "mark_seen"} =>
                /\ proc'[h].idx \in 1..PerRunLimit
                /\ proc'[h].idx <= Len(proc'[h].newPosts)
       /\ \A p \in FeedIds(feed) :
             /\ relevanceCalls'[p] # relevanceCalls[p] =>
                   \E h \in Handlers :
                       /\ Evaluates(h, "relevance")
                       /\ proc[h].idx <= PerRunLimit
                       /\ proc[h].newPosts[proc[h].idx].id = p
                       /\ relevanceCalls'[p] = relevanceCalls[p] + 1
             /\ p \in seen_posts' \ seen_posts =>
                   \E h \in Handlers :
                       /\ Evaluates(h, "mark_seen")
                       /\ proc[h].idx <= PerRunLimit
                       /\ proc[h].newPosts[proc[h].idx].id = p
       /\ \A h \in Handlers :
             (Free(h) /\ proc'[h].kind = "run" /\ proc'[h].newPosts # <<>>) =>
                \A p \in FeedIds(feed) \ seen_posts :
                    \E k \in 1..Len(proc'[h].newPosts) : proc'[h].newPosts[k].id = p
      ]_vars

\* C16 witness: a run that found more than five new posts has evaluated and
\* marked the first five, each once, and left the sixth unseen and not
\* evaluated; a run that started after that and overlaps it has the sixth
\* post as its first new post
C16_Witness ==
    \E h \in Handlers, g \in Handlers :
        /\ proc[h].kind = "run" /\ proc[h].pc \notin {"idle", "relevance", "mark_seen"}
        /\ Len(proc[h].newPosts) > PerRunLimit
        /\ \A k \in 1..PerRunLimit :
              /\ proc[h].newPosts[k].id \in seen_posts
              /\ relevanceCalls[proc[h].newPosts[k].id] = 1
        /\ proc[h].newPosts[PerRunLimit + 1].id \notin seen_posts
        /\ relevanceCalls[proc[h].newPosts[PerRunLimit + 1].id] = 0
        /\ proc[g].kind = "run" /\ proc[g].pc = "relevance" /\ proc[g].idx = 1
        /\ proc[g].newPosts[1] = proc[h].newPosts[PerRunLimit + 1]

\* the original post drafts the scheduled run created
FreshPosts == {i \in fresh : post_queue[i].type = "post"}

\* C17: two original post drafts of the scheduled run are never created
\* closer together than post_frequency_minutes (as the claim states it; the
\* code does not keep it when runs overlap)
C17_PostsSpacedByCooldown ==
    \A i \in FreshPosts, j \in FreshPosts :
        i < j => post_queue[j].created_at - post_queue[i].created_at
                    >= config.post_frequency_minutes

\* the remote identifier of a draft (NULL: none)
RemoteId(draft) ==
    IF draft.moltbook_post_id # NULL THEN draft.moltbook_post_id
    ELSE draft.moltbook_comment_id

\* C18: a draft has a remote identifier only if a publish call for that
\* draft succeeded: the identifier is the one the platform gave to a
\* publication of this draft, it is in the column of the draft's type, and
\* the other column is unset
C18_RemoteIdOnlyAfterPublish ==
    \A i \in Rows :
        LET draft == post_queue[i]
        IN /\ RemoteId(draft) # NULL =>
                /\ RemoteId(draft) \in 1..Len(moltbook)
                /\ moltbook[RemoteId(draft)].draft = i
                /\ Publishes(i) >= 1
           /\ draft.type = "post" => draft.moltbook_comment_id = NULL
           /\ draft.type = "reply" => draft.moltbook_post_id = NULL

\* C18 witness: one draft was published and carries its remote id, and the
\* publish call of a decision on another draft has failed and left that
\* draft without one
C18_Witness ==
    /\ \E i \in Rows : RemoteId(post_queue[i]) # NULL
    /\ response.kind = "decision" /\ response.publishFailed
    /\ RemoteId(post_queue[response.draft_id]) = NULL
    /\ Publishes(response.draft_id) = 0

\* postToMoltbook, called by the run of handler h, takes a step
AutoPostSteps(h) ==
    /\ proc[h].kind = "run"
    /\ proc[h].pc \in {"auto_select", "auto_publish", "auto_json", "auto_update",
                      "auto_log"}
    /\ proc'[h] # proc[h]

\* C19: a draft that is rejected or superseded is never published by
\* auto-post and its status never becomes posted, whatever reject and
\* regenerate requests overlap the run (as the claim states it; the code
\* does not keep it)
C19_NoAutoPostAfterRejectOrSupersede ==
    [][/\ \A i \in Rows :
             post_queue[i].status \in {"rejected", "superseded"} =>
                post_queue'[i].status # "posted"
       /\ \A h \in Handlers :
             (/\ AutoPostSteps(h)
              /\ post_queue[proc[h].inserted].status \in {"rejected", "superseded"}) =>
                moltbook' = moltbook
      ]_vars

\* the regenerate handler h takes its step at position pc
RegenerateSteps(h, pc) ==
    /\ proc[h].kind = "regenerate" /\ proc[h].pc = pc
    /\ proc'[h] # proc[h]

\* the columns a regeneration carries forward
Carried(draft) ==
    <<draft.type, draft.submolt, draft.reply_to_post_id, draft.reply_to_comment_id,
      draft.context>>

\* C20: a regenerate changes nothing of its source draft but status (to
\* superseded) and decided_at, and its insert appends one draft, pending and
\* not decided, whose type, submolt, reply_to_post_id, reply_to_comment_id
\* and context are those of the source, and changes no other row; its last
\* step writes the log only and answers with success; after every step all
\* drafts of a lineage have the same context
C20_RegenerateCarriesForward ==
    [][/\ \A h \in Handlers :
             /\ RegenerateSteps(h, "supersede") =>
                   /\ post_queue' = [post_queue EXCEPT ![proc[h].draft_id] =
                          [@ EXCEPT !.status = "superseded",
                                    !.decided_at = proc[h].stamp]]
                   /\ proc[h].stamp # NULL
             /\ RegenerateSteps(h, "insert") =>
                   /\ Len(post_queue') = Len(post_queue) + 1
                   /\ SubSeq(post_queue', 1, Len(post_queue)) = post_queue
                   /\ post_queue'[Len(post_queue')].status = "pending"
                   /\ Undecided(post_queue'[Len(post_queue')])
                   /\ Carried(post_queue'[Len(post_queue')])
                         = Carried(post_queue[proc[h].draft_id])
             /\ RegenerateSteps(h, "regenerate_log") =>
                   /\ post_queue' = post_queue
                   /\ response'.kind = "regenerate" /\ response'.result = "success"
       /\ \A i \in 1..Len(post_queue'), j \in 1..Len(post_queue') :
             (post_queue'[i].root_draft_id # NULL
                /\ post_queue'[j].root_draft_id = post_queue'[i].root_draft_id) =>
                post_queue'[j].context = post_queue'[i].context
      ]_vars

\* C20 witness: a regenerate of a reply draft has succeeded: the source is
\* superseded and the new draft, the last of the queue, is pending with the
\* reply target and the context of the source
C20_Witness ==
    /\ response.kind = "regenerate" /\ response.result = "success"
    /\ post_queue[response.draft_id].status = "superseded"
    /\ post_queue[response.draft_id].type = "reply"
    /\ post_queue[response.draft_id].reply_to_post_id # NULL
    /\ post_queue[Len(post_queue)].status = "pending"
    /\ post_queue[Len(post_queue)].generation_attempt > 0
    /\ Carried(post_queue[Len(post_queue)]) = Carried(post_queue[response.draft_id])

\* C21: a regenerate request whose text generation fails is answered with
\* the error and writes nothing: the queue (the source draft's status and
\* decided_at, the number of drafts), the log and the platform are as they
\* were; a regenerate request that is answered without success is answered
\* before any of its writes
C21_FailedGenerationLeavesStore ==
    [][/\ (AnsweredAtOnce /\ response'.kind = "regenerate") =>
             /\ StoreUnchanged
             /\ response'.result = "Draft not found"
             /\ response'.draft_id \notin Rows
       /\ \A h \in Handlers :
             /\ (proc[h].pc = "idle" /\ proc'[h].kind = "regenerate") =>
                   StoreUnchanged
             /\ RegenerateSteps(h, "generate") =>
                   /\ StoreUnchanged
                   /\ proc'[h].pc = "idle" => response'.result = "OpenAI API error"
             /\ (proc[h].kind = "regenerate" /\ proc[h].pc # "generate"
                    /\ proc'[h].pc = "idle") =>
                   (response'.kind = "regenerate" /\ response'.result = "success")
      ]_vars

\* C21 witness: a regenerate of a pending draft was answered with the
\* generation error; the draft is still pending and undecided and the queue
\* holds no regenerated draft
C21_Witness ==
    /\ response.kind = "regenerate"
    /\ response.result = "OpenAI API error"
    /\ response.draft_id \in Rows
    /\ post_queue[response.draft_id].status = "pending"
    /\ post_queue[response.draft_id].decided_at = NULL
    /\ Regenerations = {}
    /\ \A i \in Rows : post_queue[i].generation_attempt = 0

\* C22: at most one draft of a lineage has a remote id (as the claim states
\* it; the code does not keep it)
C22_OnePublishedPerLineage ==
    \A i \in Rows, j \in Rows :
        (i # j /\ Lineage(i) = Lineage(j) /\ RemoteId(post_queue[i]) # NULL)
            => RemoteId(post_queue[j]) = NULL

\* the run of handler h ends in this step
RunEnds(h) ==
    /\ proc[h].kind = "run"
    /\ proc'[h].pc = "idle"

\* C23: when a run ends, with success or with an error, every post it has
\* judged relevant and marked seen has a reply draft in the queue (as the
\* claim states it; the code does not keep it)
C23_NoRelevantPostLost ==
    [][\A h \in Handlers :
          RunEnds(h) =>
             \A k \in 1..Len(proc[h].postsToReply) :
                 proc[h].postsToReply[k].id \in seen_posts' =>
                    \E i \in 1..Len(post_queue') :
                        /\ post_queue'[i].type = "reply"
                        /\ post_queue'[i].reply_to_post_id = proc[h].postsToReply[k].id
      ]_vars

====
